---- MODULE Spec2Model ----
(***************************************************************************)
(* A model of pdf_tools: the read tools (read_tools.py), the write tools   *)
(* (write_tools.py) and the path allowlist (utils.py).                     *)
(*                                                                         *)
(* Text is a sequence of one-character strings, so that strip(), join()    *)
(* and substring tests are computed and not assumed.  A font size is an    *)
(* integer; a median of sizes is kept exactly as a numerator: a line's     *)
(* size is stored doubled (size2 = 2 * size) and a page's normal size       *)
(* quadrupled (normal4 = 4 * normal_size), so that the mean of the two     *)
(* middle values that statistics.median takes for an even count loses      *)
(* nothing.  The PDF engine (fitz) is a collaborator: a document is the    *)
(* data its calls return, and an edit is the record of the call made.      *)
(***************************************************************************)
EXTENDS Integers, Sequences, FiniteSets, TLC

VARIABLES ALLOWED_DIR, disk, req, ret, opened, locals, in_memory

\* ALLOWED_DIR  utils.ALLOWED_DIR: None, or Some(the list of allowed directories)
\* disk         the files: the PDF document stored at the path of the call
\*              (metadata and pages) and the paths that hold a readable image
\* req          the call: the tool and its arguments
\* ret          the call's outcome: pending, returned (with value) or raised (with exc)
\* opened       the paths the call has opened, in order
\* locals       extract_content_as_markdown's local variables at the end of each
\*              page's iteration, one record per page processed
\* in_memory    a write tool's local doc, the document it holds in memory, when
\*              the call ended: None before fitz.open, else Some(document)
vars == <<ALLOWED_DIR, disk, req, ret, opened, locals, in_memory>>

\* An optional value: None, or Some(x).  Python's None is kept apart from every
\* value, the empty list included.
None == <<>>
Some(x) == <<x>>
IsNone(o) == o = <<>>
Val(o) == o[1]

\* ------------------------------------------------------------------ text

IsSpace(c) == c \in {" ", "\n", "\t"}

RECURSIVE LStrip(_)
LStrip(s) ==
    IF s = <<>> THEN <<>>
    ELSE IF IsSpace(Head(s)) THEN LStrip(Tail(s)) ELSE s

RECURSIVE RStrip(_)
RStrip(s) ==
    IF s = <<>> THEN <<>>
    ELSE IF IsSpace(s[Len(s)]) THEN RStrip(SubSeq(s, 1, Len(s) - 1)) ELSE s

\* str.strip()
Strip(s) == RStrip(LStrip(s))

\* sub in s
Contains(s, sub) ==
    \E i \in 1..(Len(s) - Len(sub) + 1) : SubSeq(s, i, i + Len(sub) - 1) = sub

\* sep.join(parts)
RECURSIVE Join(_, _)
Join(sep, parts) ==
    IF parts = <<>> THEN <<>>
    ELSE IF Len(parts) = 1 THEN parts[1]
    ELSE parts[1] \o sep \o Join(sep, Tail(parts))

RECURSIVE Flatten(_)
Flatten(ss) == IF ss = <<>> THEN <<>> ELSE Head(ss) \o Flatten(Tail(ss))

\* ---------------------------------------------------------------- median

RECURSIVE Insert(_, _)
Insert(x, s) ==
    IF s = <<>> THEN <<x>>
    ELSE IF x <= Head(s) THEN <<x>> \o s ELSE <<Head(s)>> \o Insert(x, Tail(s))

RECURSIVE Sorted(_)
Sorted(s) == IF s = <<>> THEN <<>> ELSE Insert(Head(s), Sorted(Tail(s)))

\* Twice statistics.median(data), data not empty: the middle value of the sorted
\* data, or the mean of the two middle values.
Median2(data) ==
    LET d == Sorted(data)
        n == Len(d)
    IN  IF n % 2 = 1 THEN 2 * d[(n + 1) \div 2]
        ELSE d[n \div 2] + d[n \div 2 + 1]

\* ------------------------------------------- extract_content_as_markdown

NL == <<"\n">>
SP == <<" ">>
Star(n) == [i \in 1..n |-> "*"]

\* the substrings the font name is searched for
BoldWord == <<"B", "o", "l", "d">>
ItalicWord == <<"I", "t", "a", "l", "i", "c">>
ObliqueWord == <<"O", "b", "l", "i", "q", "u", "e">>

format_span_nested(text, is_bold, is_italic) ==
    IF is_bold THEN Star(2) \o text \o Star(2)
    ELSE IF is_italic THEN Star(1) \o text \o Star(1)
    ELSE text

format_span(text, is_bold, is_italic) ==
    IF is_bold /\ is_italic THEN Star(3) \o text \o Star(3)
    ELSE IF is_bold THEN Star(2) \o text \o Star(2)
    ELSE IF is_italic THEN Star(1) \o text \o Star(1)
    ELSE text

is_bold(span) == Contains(span.font, BoldWord)
is_italic(span) == Contains(span.font, ItalicWord) \/ Contains(span.font, ObliqueWord)

\* The loop over a line's spans: [line_text, line_styles] after the last span.
RECURSIVE SpanLoop(_, _, _)
SpanLoop(spans, line_text, line_styles) ==
    IF spans = <<>> THEN [line_text |-> line_text, line_styles |-> line_styles]
    ELSE LET span == Head(spans)
             span_text == Strip(span.text)
         IN  IF span_text = <<>>
             THEN SpanLoop(Tail(spans), line_text, line_styles)
             ELSE SpanLoop(Tail(spans),
                           line_text \o format_span(span_text, is_bold(span), is_italic(span)) \o SP,
                           Append(line_styles, span.size))

DefaultSize == 12

\* The entry of spans_by_line a line gives, as a sequence of zero or one entry.
LineEntry(line) ==
    LET l == SpanLoop(line.spans, <<>>, <<>>)
    IN  IF Strip(l.line_text) # <<>>
        THEN << [text |-> Strip(l.line_text),
                 top |-> line.bbox[2],
                 size2 |-> IF l.line_styles # <<>> THEN Median2(l.line_styles)
                           ELSE 2 * DefaultSize] >>
        ELSE <<>>

\* block.get("lines", [])
BlockLines(block) == IF "lines" \in DOMAIN block THEN block.lines ELSE <<>>

RECURSIVE LinesLoop(_)
LinesLoop(lines) ==
    IF lines = <<>> THEN <<>> ELSE LineEntry(Head(lines)) \o LinesLoop(Tail(lines))

RECURSIVE spans_by_line(_)
spans_by_line(blocks) ==
    IF blocks = <<>> THEN <<>>
    ELSE LinesLoop(BlockLines(Head(blocks))) \o spans_by_line(Tail(blocks))

\* 4 * normal_size: twice the median of the doubled sizes
normal_size4(sbl) ==
    IF sbl # <<>> THEN Median2([i \in 1..Len(sbl) |-> sbl[i].size2])
    ELSE 4 * DefaultSize

ParagraphGap == 15

Abs(x) == IF x < 0 THEN -x ELSE x

StartsParagraph_inclusive(prev_top, top) ==
    ~IsNone(prev_top) /\ Abs(top - Val(prev_top)) >= ParagraphGap

\* prev_top is not None and abs(line["top"] - prev_top) > 15
StartsParagraph(prev_top, top) ==
    ~IsNone(prev_top) /\ Abs(top - Val(prev_top)) > ParagraphGap

RECURSIVE ParagraphLoop(_, _, _, _)
ParagraphLoop(lines, grouped_paragraphs, current_para, prev_top) ==
    IF lines = <<>>
    THEN IF current_para # <<>> THEN Append(grouped_paragraphs, current_para)
         ELSE grouped_paragraphs
    ELSE LET line == Head(lines)
             new == StartsParagraph(prev_top, line.top)
         IN  ParagraphLoop(Tail(lines),
                           IF new THEN Append(grouped_paragraphs, current_para)
                           ELSE grouped_paragraphs,
                           IF new THEN <<line>> ELSE Append(current_para, line),
                           Some(line.top))

grouped_paragraphs(sbl) == ParagraphLoop(sbl, <<>>, <<>>, None)

H1 == <<"#", " ">>
H2 == <<"#", "#", " ">>
H3 == <<"#", "#", "#", " ">>

\* size > normal_size * (tenths / 10), on the exact numerators
Exceeds(size2, normal4, tenths) == 20 * size2 > tenths * normal4

heading_inclusive(size2, normal4) ==
    IF 20 * size2 >= 15 * normal4 THEN H1
    ELSE IF 20 * size2 >= 12 * normal4 THEN H2
    ELSE IF 20 * size2 >= 11 * normal4 THEN H3
    ELSE <<>>

heading(size2, normal4) ==
    IF Exceeds(size2, normal4, 15) THEN H1
    ELSE IF Exceeds(size2, normal4, 12) THEN H2
    ELSE IF Exceeds(size2, normal4, 11) THEN H3
    ELSE <<>>

ParagraphFragment_last_line(para, normal4) ==
    LET last_line == para[Len(para)]
        para_text == Join(SP, [i \in 1..Len(para) |-> para[i].text])
    IN  heading(last_line.size2, normal4) \o para_text \o NL

ParagraphFragment(para, normal4) ==
    LET first_line == para[1]
        para_text == Join(SP, [i \in 1..Len(para) |-> para[i].text])
    IN  heading(first_line.size2, normal4) \o para_text \o NL

ParagraphFragments(blocks) ==
    LET sbl == spans_by_line(blocks)
        normal4 == normal_size4(sbl)
        paras == grouped_paragraphs(sbl)
        nonempty == SelectSeq(paras, LAMBDA para : para # <<>>)
    IN  [i \in 1..Len(nonempty) |-> ParagraphFragment(nonempty[i], normal4)]

\* A table cell: a string, or a value that has no strip() (None).
StrCell(text) == [type |-> "str", value |-> text]
NoneCell == [type |-> "NoneType"]

Separator == <<"-", "-", "-">>
Pipe == <<" ", "|", " ">>

\* f"| {line} |"
RowFragment(line) == <<"|", " ">> \o line \o <<" ", "|">>

\* The fragments one row appends; cell.strip() raises on a cell that is no string,
\* before anything of the row is appended.
RowStep(i, row) ==
    IF \E k \in 1..Len(row) : row[k].type # "str"
    THEN [raised |-> TRUE, out |-> <<>>]
    ELSE LET line == Join(Pipe, [k \in 1..Len(row) |-> Strip(row[k].value)])
             separator == Join(Pipe, [k \in 1..Len(row) |-> Separator])
         IN  [raised |-> FALSE,
              out |-> IF i = 0 THEN <<RowFragment(line), RowFragment(separator)>>
                      ELSE <<RowFragment(line)>>]

\* for i, row in enumerate(table.extract()), from row i on
RECURSIVE RowLoop(_, _, _)
RowLoop(rows, i, out) ==
    IF rows = <<>> THEN [raised |-> FALSE, out |-> out]
    ELSE LET r == RowStep(i, Head(rows))
         IN  IF r.raised THEN [raised |-> TRUE, out |-> out]
             ELSE RowLoop(Tail(rows), i + 1, out \o r.out)

TableStep_no_trailer(table) ==
    IF table.raises THEN [raised |-> TRUE, out |-> <<NL>>]
    ELSE RowLoop(table.rows, 0, <<NL>>)

\* One table: the blank line, the rows, the blank line; a raise keeps what was
\* appended before it.
TableStep(table) ==
    IF table.raises THEN [raised |-> TRUE, out |-> <<NL>>]
    ELSE LET r == RowLoop(table.rows, 0, <<NL>>)
         IN  IF r.raised THEN r ELSE [raised |-> FALSE, out |-> r.out \o <<NL>>]

\* for table in tables
RECURSIVE TableLoop(_, _)
TableLoop(tables, out) ==
    IF tables = <<>> THEN out
    ELSE LET r == TableStep(Head(tables))
         IN  IF r.raised THEN out \o r.out
             ELSE TableLoop(Tail(tables), out \o r.out)

\* The try block: what it appends to page_content; except Exception: pass.
TableFragments(page) ==
    IF page.find_tables.raises THEN <<>>
    ELSE TableLoop(page.find_tables.tables, <<>>)

\* One iteration of the loop over pages: the local variables at its end.
MarkdownPage(page) ==
    LET blocks == page.blocks
        sbl == spans_by_line(blocks)
    IN  [spans_by_line |-> sbl,
         normal_size4 |-> normal_size4(sbl),
         grouped_paragraphs |-> grouped_paragraphs(sbl),
         page_content |-> ParagraphFragments(blocks) \o TableFragments(page)]

\* ----------------------------------------------------------------- utils

\* Path(p).resolve() of an absolute path, a sequence of components: "." and ".."
\* are folded away (".." at the root stays at the root).  Symbolic links are not
\* modelled.
RECURSIVE ResolveLoop(_, _)
ResolveLoop(parts, acc) ==
    IF parts = <<>> THEN acc
    ELSE IF Head(parts) = "." THEN ResolveLoop(Tail(parts), acc)
    ELSE IF Head(parts) = ".."
         THEN ResolveLoop(Tail(parts),
                          IF acc = <<>> THEN acc ELSE SubSeq(acc, 1, Len(acc) - 1))
    ELSE ResolveLoop(Tail(parts), Append(acc, Head(parts)))

Resolve(path) == ResolveLoop(path, <<>>)

\* Path.parents: the proper ancestors, the root included
Parents(path) == {SubSeq(path, 1, k) : k \in 0..(Len(path) - 1)}

\* _get_allowed_dir(): the environment's ALLOWED_DIR is None (unset), or Some of
\* an empty string, of one path, or of a JSON list of paths (it holds a "[").
get_allowed_dir(env) ==
    IF IsNone(env) \/ Val(env).kind = "empty" THEN None
    ELSE IF Val(env).kind = "json"
         THEN Some([i \in 1..Len(Val(env).paths) |-> Resolve(Val(env).paths[i])])
    ELSE Some(<<Resolve(Val(env).path)>>)

\* path_is_allowed(path): "True", "None" (falls off the end) or "raise"
\* (NotAuthorizedError)
path_is_allowed(path) ==
    IF IsNone(ALLOWED_DIR) THEN "True"
    ELSE LET dirs == Val(ALLOWED_DIR)
         IN  IF \E i \in 1..Len(dirs) : Resolve(path) = dirs[i] THEN "True"
             ELSE IF ~(\E i \in 1..Len(dirs) : dirs[i] \in Parents(Resolve(path)))
                  THEN "raise"
             ELSE "None"

\* ------------------------------------------------------------ the engine

\* fitz.Rect: <<x0, y0, x1, y1>>
IsEmpty(r) == r[1] >= r[3] \/ r[2] >= r[4]
Max(a, b) == IF a >= b THEN a ELSE b
Min(a, b) == IF a <= b THEN a ELSE b
Intersection(a, b) == <<Max(a[1], b[1]), Max(a[2], b[2]), Min(a[3], b[3]), Min(a[4], b[4])>>
\* Rect.intersects
Intersects(a, b) == ~IsEmpty(a) /\ ~IsEmpty(b) /\ ~IsEmpty(Intersection(a, b))

\* A span of the engine's text dict: each character is one unit wide.
Span(text, font, size, x0, top) ==
    [text |-> text, font |-> font, size |-> size, color |-> 0,
     bbox |-> <<x0, top, x0 + Len(text), top + size>>,
     origin |-> <<x0, top + size>>]

\* A line at top, its spans set side by side from x = 0; the spans are given as
\* <<text, font, size>>.
RECURSIVE LaySpans(_, _, _)
LaySpans(items, x0, top) ==
    IF items = <<>> THEN <<>>
    ELSE <<Span(Head(items)[1], Head(items)[2], Head(items)[3], x0, top)>>
         \o LaySpans(Tail(items), x0 + Len(Head(items)[1]), top)

\* The line's bbox spans its spans; bbox[2] is the line's top.
Line(items, top) ==
    LET spans == LaySpans(items, 0, top)
        right == IF spans = <<>> THEN 0 ELSE spans[Len(spans)].bbox[3]
        height == IF spans = <<>> THEN 0
                  ELSE CHOOSE h \in {spans[k].size : k \in 1..Len(spans)} :
                           \A k \in 1..Len(spans) : spans[k].size <= h
    IN  [spans |-> spans, bbox |-> <<0, top, right, top + height>>]

TextBlock(lines) == [type |-> 0, lines |-> lines]
ImageBlock(rect) == [type |-> 1, bbox |-> rect]

NoTables == [raises |-> FALSE, tables |-> <<>>]

Page(blocks, find_tables) ==
    [blocks |-> blocks, find_tables |-> find_tables, annots |-> <<>>, edits |-> <<>>]

Document(pages) == [metadata |-> [title |-> <<"t">>], pages |-> pages]

\* line.get("spans", [])
LineSpans(line) == IF "spans" \in DOMAIN line THEN line.spans ELSE <<>>

AllLines(blocks) == Flatten([b \in 1..Len(blocks) |-> BlockLines(blocks[b])])

\* page.get_text(): the text of each line, a newline after it
get_text(page) ==
    LET lines == AllLines(page.blocks)
    IN  Flatten([l \in 1..Len(lines) |->
            Flatten([k \in 1..Len(LineSpans(lines[l])) |-> LineSpans(lines[l])[k].text])
            \o NL])

\* The glyphs of a line, in span order: the character and the place of its cell.
Glyphs(line) ==
    Flatten([k \in 1..Len(line.spans) |->
        [c \in 1..Len(line.spans[k].text) |->
            [ch |-> line.spans[k].text[c], x |-> line.spans[k].bbox[1] + c - 1]]])

\* The occurrences of needle in a line from glyph i on, left to right and not
\* overlapping: the rectangle of each.
RECURSIVE LineHits(_, _, _, _)
LineHits(glyphs, line, needle, i) ==
    IF needle = <<>> \/ i + Len(needle) - 1 > Len(glyphs) THEN <<>>
    ELSE IF \A k \in 1..Len(needle) :
               /\ glyphs[i + k - 1].ch = needle[k]
               /\ glyphs[i + k - 1].x = glyphs[i].x + k - 1
         THEN <<<<glyphs[i].x, line.bbox[2], glyphs[i].x + Len(needle), line.bbox[4]>>>>
              \o LineHits(glyphs, line, needle, i + Len(needle))
    ELSE LineHits(glyphs, line, needle, i + 1)

\* page.search_for(text): the occurrences within each line, whichever spans hold
\* their characters
search_for(page, needle) ==
    LET lines == AllLines(page.blocks)
    IN  Flatten([l \in 1..Len(lines) |-> LineHits(Glyphs(lines[l]), lines[l], needle, 1)])

\* apply_redactions on one span: the characters whose cell meets the rectangle
\* go; what is left of the span, to the left and to the right, stays.
RedactSpan(span, rect) ==
    IF ~Intersects(span.bbox, rect) THEN <<span>>
    ELSE LET x0 == span.bbox[1]
             n == Len(span.text)
             nl == Max(0, Min(n, rect[1] - x0))
             nr == Max(0, Min(n, rect[3] - x0))
             left == [span EXCEPT !.text = SubSeq(span.text, 1, nl),
                                  !.bbox = <<x0, @[2], x0 + nl, @[4]>>]
             right == [span EXCEPT !.text = SubSeq(span.text, nr + 1, n),
                                   !.bbox = <<x0 + nr, @[2], @[3], @[4]>>,
                                   !.origin = <<x0 + nr, @[2]>>]
         IN  (IF nl > 0 THEN <<left>> ELSE <<>>) \o (IF nr < n THEN <<right>> ELSE <<>>)

RedactBlock(block, rect) ==
    IF "lines" \notin DOMAIN block THEN block
    ELSE [block EXCEPT !.lines =
            [l \in 1..Len(@) |->
                [@[l] EXCEPT !.spans =
                    Flatten([k \in 1..Len(@) |-> RedactSpan(@[k], rect)])]]]

\* page.add_redact_annot(rect, fill); the removal that apply_redactions makes of
\* the marked rectangle is taken here, rectangle by rectangle
Redact(page, rect) ==
    [page EXCEPT !.blocks = [b \in 1..Len(@) |-> RedactBlock(@[b], rect)],
                 !.edits = Append(@, [op |-> "redact", rect |-> rect])]

\* page.insert_text(point, text, fontname, fontsize, color): a new block of one
\* line whose baseline starts at point, its colour kept as the text dict gives
\* it back (an int); an empty text adds no block.
insert_text(page, point, text, fontname, fontsize, color) ==
    LET span == [Span(text, fontname, fontsize, point[1], point[2] - fontsize)
                    EXCEPT !.color = color[1] * 65536 + color[2] * 256 + color[3]]
        line == [spans |-> <<span>>, bbox |-> span.bbox]
    IN  [page EXCEPT !.blocks = IF text = <<>> THEN @ ELSE Append(@, TextBlock(<<line>>)),
                     !.edits = Append(@, [op |-> "insert_text", point |-> point,
                                          text |-> text, fontname |-> fontname,
                                          fontsize |-> fontsize, color |-> color])]

\* ------------------------------------------------------------ the calls

Returned(value) == [status |-> "returned", value |-> value]
Raised(exc) == [status |-> "raised", exc |-> exc]

\* range(len(doc))
AllPages(doc) == [i \in 1..Len(doc.pages) |-> i - 1]

\* pages or list(range(len(doc))): None and the empty list are both falsy
select_pages(pages, doc) ==
    IF IsNone(pages) \/ Val(pages) = <<>> THEN AllPages(doc) ELSE Val(pages)

\* doc[p] raises IndexError on a page the document does not have: the place in
\* pages of the first such index, 0 when there is none.
FirstBad(pages, doc) ==
    LET bad == {i \in 1..Len(pages) : pages[i] \notin 0..(Len(doc.pages) - 1)}
    IN  IF bad = {} THEN 0 ELSE CHOOSE i \in bad : \A j \in bad : i <= j

\* doc[p]
PageOf(doc, p) == doc.pages[p + 1]

Authorized == path_is_allowed(req.path) # "raise"

Idle(tool) == req.tool = tool /\ ret.status = "pending"

\* ------------------------------------------------------------ read_tools

get_metadata ==
    /\ Idle("get_metadata")
    /\ IF ~Authorized
       THEN ret' = Raised("NotAuthorizedError") /\ opened' = opened
       ELSE /\ opened' = Append(opened, req.path)
            /\ ret' = Returned([title |-> disk.pdf.metadata.title,
                                page_count |-> Len(disk.pdf.pages)])
    /\ UNCHANGED <<ALLOWED_DIR, disk, req, locals, in_memory>>

\* The entry a tool's loop appends for page p
PageEntry(tool, p, page) ==
    IF tool = "extract_content_as_text" THEN [page |-> p, content |-> get_text(page)]
    ELSE IF tool = "extract_content_as_json" THEN [page |-> p, blocks |-> page.blocks]
    ELSE [page |-> p, content |-> Join(NL, MarkdownPage(page).page_content)]

\* The body of the three tools whose loop appends one entry per page.
PerPage(tool) ==
    /\ Idle(tool)
    /\ IF ~Authorized
       THEN ret' = Raised("NotAuthorizedError") /\ opened' = opened
       ELSE LET doc == disk.pdf
                pages == select_pages(req.pages, doc)
            IN  /\ opened' = Append(opened, req.path)
                /\ ret' = IF FirstBad(pages, doc) # 0 THEN Raised("IndexError")
                          ELSE Returned([i \in 1..Len(pages) |->
                                            PageEntry(tool, pages[i], PageOf(doc, pages[i]))])
    /\ UNCHANGED <<ALLOWED_DIR, disk, req, in_memory>>

extract_content_as_text ==
    /\ PerPage("extract_content_as_text")
    /\ UNCHANGED locals

extract_content_as_json ==
    /\ PerPage("extract_content_as_json")
    /\ UNCHANGED locals

\* locals holds the pages the loop went through before any IndexError.
extract_content_as_markdown ==
    /\ PerPage("extract_content_as_markdown")
    /\ locals' =
         IF ~Authorized THEN <<>>
         ELSE LET doc == disk.pdf
                  pages == select_pages(req.pages, doc)
                  bad == FirstBad(pages, doc)
                  done == IF bad = 0 THEN Len(pages) ELSE bad - 1
              IN  [i \in 1..done |-> MarkdownPage(PageOf(doc, pages[i]))]

PageLayout(p, page) ==
    LET lines == AllLines(page.blocks)
        spans == Flatten([l \in 1..Len(lines) |-> LineSpans(lines[l])])
    IN  [k \in 1..Len(spans) |->
            [page |-> p, text |-> spans[k].text, bbox |-> spans[k].bbox,
             font |-> spans[k].font, size |-> spans[k].size]]

\* annot.info.get("content", "")
AnnotContent(annot) == IF "content" \in DOMAIN annot.info THEN annot.info.content ELSE <<>>

PageAnnotations(p, page) ==
    [k \in 1..Len(page.annots) |->
        [page |-> p, text |-> AnnotContent(page.annots[k]),
         bbox |-> page.annots[k].rect, type |-> page.annots[k].type[2]]]

\* The body of the two tools whose loop appends any number of entries per page.
Flattened(tool) ==
    /\ Idle(tool)
    /\ IF ~Authorized
       THEN ret' = Raised("NotAuthorizedError") /\ opened' = opened
       ELSE LET doc == disk.pdf
                pages == select_pages(req.pages, doc)
            IN  /\ opened' = Append(opened, req.path)
                /\ ret' = IF FirstBad(pages, doc) # 0 THEN Raised("IndexError")
                          ELSE Returned(Flatten([i \in 1..Len(pages) |->
                                   IF tool = "extract_text_with_layout"
                                   THEN PageLayout(pages[i], PageOf(doc, pages[i]))
                                   ELSE PageAnnotations(pages[i], PageOf(doc, pages[i]))]))
    /\ UNCHANGED <<ALLOWED_DIR, disk, req, locals, in_memory>>

extract_text_with_layout ==
    /\ Flattened("extract_text_with_layout")

list_annotations ==
    /\ Flattened("list_annotations")

\* ----------------------------------------------------------- write_tools

\* FONT_FALLBACKS, in the order of the dict, the keys lowered
FONT_FALLBACKS ==
    << <<<<"t", "i", "m", "e", "s", " ", "n", "e", "w", " ", "r", "o", "m", "a", "n">>, <<"T", "i", "m", "e", "s", "-", "R", "o", "m", "a", "n">>>>,
       <<<<"t", "i", "m", "e", "s">>, <<"T", "i", "m", "e", "s", "-", "R", "o", "m", "a", "n">>>>,
       <<<<"a", "r", "i", "a", "l">>, <<"h", "e", "l", "v">>>>,
       <<<<"a", "r", "i", "a", "l", " ", "b", "o", "l", "d">>, <<"h", "e", "l", "v">>>>,
       <<<<"h", "e", "l", "v", "e", "t", "i", "c", "a">>, <<"h", "e", "l", "v">>>>,
       <<<<"c", "o", "u", "r", "i", "e", "r">>, <<"c", "o", "u", "r", "i", "e", "r">>>>,
       <<<<"c", "o", "u", "r", "i", "e", "r", " ", "n", "e", "w">>, <<"c", "o", "u", "r", "i", "e", "r">>>>,
       <<<<"s", "y", "m", "b", "o", "l">>, <<"s", "y", "m", "b", "o", "l">>>>,
       <<<<"d", "e", "f", "a", "u", "l", "t">>, <<"h", "e", "l", "v">>>> >>

Lower(ch) ==
    LET up == ("A" :> "a") @@ ("B" :> "b") @@ ("C" :> "c") @@ ("D" :> "d") @@ ("E" :> "e") @@ ("F" :> "f") @@ ("G" :> "g") @@ ("H" :> "h") @@ ("I" :> "i") @@ ("J" :> "j") @@ ("K" :> "k") @@ ("L" :> "l") @@ ("M" :> "m") @@ ("N" :> "n") @@ ("O" :> "o") @@ ("P" :> "p") @@ ("Q" :> "q") @@ ("R" :> "r") @@ ("S" :> "s") @@ ("T" :> "t") @@ ("U" :> "u") @@ ("V" :> "v") @@ ("W" :> "w") @@ ("X" :> "x") @@ ("Y" :> "y") @@ ("Z" :> "z")
    IN  IF ch \in DOMAIN up THEN up[ch] ELSE ch

LowerStr(text) == [i \in 1..Len(text) |-> Lower(text[i])]

parse_fontname(font_name) ==
    LET hits == {i \in 1..Len(FONT_FALLBACKS) :
                    Contains(LowerStr(font_name), FONT_FALLBACKS[i][1])}
    IN  IF hits = {} THEN FONT_FALLBACKS[Len(FONT_FALLBACKS)][2]
        ELSE FONT_FALLBACKS[CHOOSE i \in hits : \A j \in hits : i <= j][2]

\* parse_fontcolor of an int: the three channels, each over 255
parse_fontcolor(value) ==
    <<(value \div 65536) % 256, (value \div 256) % 256, value % 256>>

\* all_spans
PageSpans(page) ==
    LET lines == AllLines(page.blocks)
    IN  Flatten([l \in 1..Len(lines) |-> LineSpans(lines[l])])

\* the spans that hold old_text and meet the instance
matching_spans(all_spans, old_text, inst) ==
    SelectSeq(all_spans,
              LAMBDA span : Contains(span.text, old_text) /\ Intersects(span.bbox, inst))

\* replacements: one entry for each instance that some span matches
replacements(page, old_text) ==
    LET text_instances == search_for(page, old_text)
        all_spans == PageSpans(page)
        entry(inst) ==
            LET m == matching_spans(all_spans, old_text, inst)
            IN  IF m # <<>>
                THEN << [bbox |-> inst, font |-> m[1].font, size |-> m[1].size,
                         origin |-> m[1].origin] >>
                ELSE <<>>
    IN  Flatten([i \in 1..Len(text_instances) |-> entry(text_instances[i])])

\* The body of replace_text's loop: the redactions, then the insertions.  `span`
\* in the insertion is the variable the loop over all_spans left: the page's
\* last span.
ReplaceOnPage(page, old_text, new_text) ==
    LET rs == replacements(page, old_text)
        all_spans == PageSpans(page)
        redacted[i \in 0..Len(rs)] ==
            IF i = 0 THEN page ELSE Redact(redacted[i - 1], rs[i].bbox)
        applied == [redacted[Len(rs)] EXCEPT
                        !.edits = Append(@, [op |-> "apply_redactions"])]
        inserted[i \in 0..Len(rs)] ==
            IF i = 0 THEN applied
            ELSE insert_text(inserted[i - 1], <<rs[i].bbox[1], rs[i].origin[2]>>, new_text,
                             parse_fontname(rs[i].font), rs[i].size,
                             parse_fontcolor(all_spans[Len(all_spans)].color))
    IN  inserted[Len(rs)]

\* page.add_highlight_annot(inst)
add_highlight_annot(page, inst) ==
    [page EXCEPT !.annots = Append(@, [info |-> [content |-> <<>>], rect |-> inst,
                                       type |-> <<8, "Highlight">>]),
                 !.edits = Append(@, [op |-> "add_highlight_annot", rect |-> inst])]

HighlightOnPage(page, text) ==
    LET hits == search_for(page, text)
        f[i \in 0..Len(hits)] ==
            IF i = 0 THEN page ELSE add_highlight_annot(f[i - 1], hits[i])
    IN  f[Len(hits)]

\* page.insert_image(rect, stream): an image block
InsertImageOnPage(page, rect, img) ==
    [page EXCEPT !.blocks = Append(@, ImageBlock(rect)),
                 !.edits = Append(@, [op |-> "insert_image", rect |-> rect, stream |-> img])]

HexDigits ==
    {"0", "1", "2", "3", "4", "5", "6", "7", "8", "9",
     "a", "b", "c", "d", "e", "f", "A", "B", "C", "D", "E", "F"}

\* color.lstrip("#")
RECURSIVE LStripHash(_)
LStripHash(s) ==
    IF s # <<>> /\ Head(s) = "#" THEN LStripHash(Tail(s)) ELSE s

\* s[i : i + 2], i counted from 0
Slice2(s, i) == SubSeq(s, i + 1, Min(Len(s), i + 2))

\* int(s, 16) raises ValueError on an empty string and on a character that is
\* no hexadecimal digit
BadHex(s) == s = <<>> \/ \E k \in 1..Len(s) : s[k] \notin HexDigits

BadColor(color) ==
    \E i \in {0, 2, 4} : BadHex(Slice2(LStripHash(color), i))

HexValue(ch) ==
    LET v == ("0" :> 0) @@ ("1" :> 1) @@ ("2" :> 2) @@ ("3" :> 3) @@ ("4" :> 4) @@ ("5" :> 5) @@ ("6" :> 6) @@ ("7" :> 7) @@ ("8" :> 8) @@ ("9" :> 9) @@ ("a" :> 10) @@ ("b" :> 11) @@ ("c" :> 12) @@ ("d" :> 13) @@ ("e" :> 14) @@ ("f" :> 15) @@ ("A" :> 10) @@ ("B" :> 11) @@ ("C" :> 12) @@ ("D" :> 13) @@ ("E" :> 14) @@ ("F" :> 15)
    IN  v[ch]

RECURSIVE IntHex(_)
IntHex(s) == IF s = <<>> THEN 0 ELSE 16 * IntHex(SubSeq(s, 1, Len(s) - 1)) + HexValue(s[Len(s)])

\* rgb_color: the three channels, each over 255
rgb_color(color) ==
    <<IntHex(Slice2(LStripHash(color), 0)), IntHex(Slice2(LStripHash(color), 2)),
      IntHex(Slice2(LStripHash(color), 4))>>

draw_rect(page, rect, color) ==
    [page EXCEPT !.edits = Append(@, [op |-> "draw_rect", rect |-> rect, color |-> color])]

\* The edit a write tool makes to one page in its loop.  add_text leaves the font
\* and the size to the engine (helv, 11).
PageEdit(tool, page) ==
    IF tool = "add_text"
    THEN insert_text(page, req.position, req.text, <<"h", "e", "l", "v">>, 11, <<0, 0, 0>>)
    ELSE IF tool = "replace_text" THEN ReplaceOnPage(page, req.old_text, req.new_text)
    ELSE IF tool = "highlight_text" THEN HighlightOnPage(page, req.text)
    ELSE IF tool = "insert_image"
         THEN InsertImageOnPage(page,
                  <<req.position[1], req.position[2],
                    req.position[1] + Val(req.size)[1], req.position[2] + Val(req.size)[2]>>,
                  Resolve(req.image_path))
    ELSE IF tool = "delete_text_by_bbox"
         THEN [Redact(page, req.bbox) EXCEPT
                  !.edits = Append(@, [op |-> "apply_redactions"])]
    ELSE draw_rect(page, req.bbox, rgb_color(req.color))

\* The loop `for p in pages: page = doc[p]; <edit page>`, every index in range.
EditPages(tool, doc, pages) ==
    LET f[i \in 0..Len(pages)] ==
            IF i = 0 THEN doc
            ELSE [f[i - 1] EXCEPT !.pages[pages[i] + 1] = PageEdit(tool, @)]
    IN  f[Len(pages)]

\* What the loop over the pages leaves: the document in memory, edited on the
\* pages that come before the first index the document does not have, and the
\* exception doc[p] raised there, if any.
PageLoop(tool, doc, pages) ==
    LET bad == FirstBad(pages, doc)
    IN  IF bad = 0 THEN [doc |-> EditPages(tool, doc, pages), exc |-> None]
        ELSE [doc |-> EditPages(tool, doc, SubSeq(pages, 1, bad - 1)),
              exc |-> Some("IndexError")]

\* doc.save(path, incremental=True), or _save_pdf(doc, path): the document in
\* memory becomes the file at the path.
save_pdf(d, doc) == [d EXCEPT !.pdf = doc]

\* The save is the statement after the loop: a raise before it skips it and
\* leaves the file as it was.
SaveStep_always(d, run) == save_pdf(d, run.doc)

SaveStep(d, run) == IF IsNone(run.exc) THEN save_pdf(d, run.doc) ELSE d

\* How a write tool that has opened the document ends
Finish(run) ==
    /\ ret' = IF IsNone(run.exc) THEN Returned(None) ELSE Raised(Val(run.exc))
    /\ in_memory' = Some(run.doc)
    /\ disk' = SaveStep(disk, run)

\* A write tool stopped by the allowlist check: nothing was opened
Refused ==
    /\ ret' = Raised("NotAuthorizedError")
    /\ opened' = opened
    /\ in_memory' = in_memory
    /\ disk' = disk

\* The steps the write tools share: the allowlist check, fitz.open, the page
\* selection, the loop over the pages and the save.
WriteCall(tool) ==
    /\ Idle(tool)
    /\ IF ~Authorized
       THEN Refused
       ELSE LET doc == disk.pdf
                pages == select_pages(req.pages, doc)
            IN  /\ opened' = Append(opened, req.path)
                /\ Finish(PageLoop(tool, doc, pages))
    /\ UNCHANGED <<ALLOWED_DIR, req, locals>>

add_text ==
    /\ WriteCall("add_text")

replace_text ==
    /\ WriteCall("replace_text")

highlight_text ==
    /\ WriteCall("highlight_text")

\* insert_image: the image is read after the document is opened and before the
\* loop; size[0] of a size that is None raises TypeError in the first iteration,
\* after doc[p].
insert_image ==
    /\ Idle("insert_image")
    /\ IF ~Authorized
       THEN Refused
       ELSE LET doc == disk.pdf
                pages == select_pages(req.pages, doc)
            IN  /\ opened' = opened \o <<req.path, req.image_path>>
                /\ IF Resolve(req.image_path) \notin disk.images
                   THEN Finish([doc |-> doc, exc |-> Some("FileNotFoundError")])
                   ELSE IF pages # <<>> /\ FirstBad(pages, doc) = 1
                   THEN Finish([doc |-> doc, exc |-> Some("IndexError")])
                   ELSE IF pages # <<>> /\ IsNone(req.size)
                   THEN Finish([doc |-> doc, exc |-> Some("TypeError")])
                   ELSE Finish(PageLoop("insert_image", doc, pages))
    /\ UNCHANGED <<ALLOWED_DIR, req, locals>>

delete_text_by_bbox ==
    /\ WriteCall("delete_text_by_bbox")

\* annotate_rect: the colour is parsed before the loop over the pages
annotate_rect ==
    /\ Idle("annotate_rect")
    /\ IF ~Authorized
       THEN Refused
       ELSE LET doc == disk.pdf
                pages == select_pages(req.pages, doc)
            IN  /\ opened' = Append(opened, req.path)
                /\ IF BadColor(req.color)
                   THEN Finish([doc |-> doc, exc |-> Some("ValueError")])
                   ELSE Finish(PageLoop("annotate_rect", doc, pages))
    /\ UNCHANGED <<ALLOWED_DIR, req, locals>>

\* ------------------------------------------------------------ the inputs

Pending == [status |-> "pending"]

\* All sequences over S of length at most n
SeqUpTo(S, n) == UNION {[1..k -> S] : k \in 0..n}

Helvetica == <<"H", "e", "l", "v", "e", "t", "i", "c", "a">>
ArialBold == <<"A", "r", "i", "a", "l", "-", "B", "o", "l", "d", "M", "T">>
TimesItalic == <<"T", "i", "m", "e", "s", "-", "I", "t", "a", "l", "i", "c">>
CourierBoldOblique == <<"C", "o", "u", "r", "i", "e", "r", "-", "B", "o", "l", "d", "O", "b", "l", "i", "q", "u", "e">>

DocPath == <<"srv", "docs", "a.pdf">>

\* A call of extract_content_as_markdown for every page of a document, no
\* allowlist configured.
MarkdownCall(pages) ==
    /\ ALLOWED_DIR = None
    /\ disk = [pdf |-> Document(pages), images |-> {}]
    /\ req = [tool |-> "extract_content_as_markdown", path |-> DocPath, pages |-> None]
    /\ ret = Pending
    /\ opened = <<>>
    /\ locals = <<>>
    /\ in_memory = None

PlainLine(text, size, top) == Line(<< <<text, Helvetica, size>> >>, top)

\* --- span formatting and line aggregation

MaxSpans == 3

Fonts == {Helvetica, ArialBold, TimesItalic, CourierBoldOblique}
SpanSizes == {10, 14}

\* <<text, font, size>>: a blank span, "a" in every font, and a text with blanks
\* at both ends and inside
SpanChoices ==
    ({<<" ">>} \X {Helvetica} \X SpanSizes)
    \cup ({<<"a">>} \X Fonts \X SpanSizes)
    \cup {<< <<" ", "b", " ", "c", "\t">>, ArialBold, 10 >>}

\* One page: a line of up to MaxSpans spans, an image block, a line "z".
InitLines ==
    \E items \in SeqUpTo(SpanChoices, MaxSpans) :
        MarkdownCall(<< Page(<< TextBlock(<<Line(items, 0)>>),
                               ImageBlock(<<0, 20, 5, 25>>),
                               TextBlock(<<PlainLine(<<"z">>, 12, 30)>>) >>,
                            NoTables) >>)

SpecLines == InitLines /\ [][extract_content_as_markdown]_vars

\* --- paragraph grouping

MaxLines == 4

Tops == {0, 15, 16, 31}
LineTexts == {<<" ">>, <<"a">>}

\* One page: up to MaxLines lines, the first in a block of its own; a line of
\* blank text is not retained.
InitParagraphs ==
    \E ls \in SeqUpTo(LineTexts \X Tops, MaxLines) :
        LET lines == [i \in 1..Len(ls) |-> PlainLine(ls[i][1], 12, ls[i][2])]
        IN  MarkdownCall(<< Page(<< TextBlock(SubSeq(lines, 1, Min(1, Len(lines)))),
                                   TextBlock(SubSeq(lines, 2, Len(lines))) >>,
                                NoTables) >>)

SpecParagraphs == InitParagraphs /\ [][extract_content_as_markdown]_vars

\* --- heading inference

MaxHeadLines == 3

HeadSizes == {100, 110, 111, 120, 121, 150, 151}
HeadTops == {0, 20}

InitHeadings ==
    \E ls \in SeqUpTo(HeadSizes \X HeadTops, MaxHeadLines) :
        MarkdownCall(<< Page(<< TextBlock([i \in 1..Len(ls) |->
                                   PlainLine(<<"a">>, ls[i][1], ls[i][2])]) >>,
                            NoTables) >>)

SpecHeadings == InitHeadings /\ [][extract_content_as_markdown]_vars

\* --- tables

MaxTables == 2
MaxRows == 2

ColChoices == {1, 3}

Digit(n) == <<"0", "1", "2", "3", "4", "5", "6", "7", "8", "9">>[n + 1]

\* The text of the cell in row r and column c, blanks around every other one
CellText(r, c) ==
    IF (r + c) % 2 = 0 THEN <<" ", Digit(r), Digit(c), " ">> ELSE <<Digit(r), Digit(c)>>

\* A table of rows x cols cells, all strings but one cell of the row `bad` (0 for
\* none)
MakeTable(rows, cols, bad) ==
    [raises |-> FALSE,
     rows |-> [r \in 1..rows |-> [c \in 1..cols |->
                 IF r = bad /\ c = (bad % cols) + 1 THEN NoneCell
                 ELSE StrCell(CellText(r, c))]]]

\* A table whose extract() raises, and the tables of up to MaxRows rows
TableChoices ==
    {[raises |-> TRUE]}
    \cup {MakeTable(rows, cols, bad) :
             rows \in 0..MaxRows, cols \in ColChoices, bad \in 0..MaxRows}

FinderChoices ==
    {[raises |-> TRUE]}
    \cup {[raises |-> FALSE, tables |-> ts] : ts \in SeqUpTo(TableChoices, MaxTables)}

\* Two pages: a line "p" and the tables of the finder, then a line "q".
InitTables ==
    \E finder \in FinderChoices :
        MarkdownCall(<< Page(<<TextBlock(<<PlainLine(<<"p">>, 12, 0)>>)>>, finder),
                        Page(<<TextBlock(<<PlainLine(<<" ", "q">>, 12, 0)>>)>>, NoTables) >>)

SpecTables == InitTables /\ [][extract_content_as_markdown]_vars

\* --- the twelve tools

NumPages == 2
MaxPagesArg == 2

\* Page i of the stored document.  An odd page has the line "xab" "a" "b": "ab"
\* once inside the first span and once across the second and the third.  An even
\* page has the line "ab" in Arial-BoldMT and a note without content.
TemplatePage(i) ==
    IF i % 2 = 1
    THEN Page(<<TextBlock(<<Line(<< <<<<"x", "a", "b">>, Helvetica, 12>>,
                                     <<<<"a">>, Helvetica, 12>>,
                                     <<<<"b">>, TimesItalic, 10>> >>, 0)>>)>>, NoTables)
    ELSE [Page(<<TextBlock(<<Line(<< <<<<"a", "b">>, ArialBold, 14>> >>, 0)>>)>>, NoTables)
            EXCEPT !.annots = << [info |-> [title |-> <<"n">>], rect |-> <<0, 0, 2, 2>>,
                                  type |-> <<0, "Text">>] >>]

StoredDocument == Document([i \in 1..NumPages |-> TemplatePage(i)])

DocsDir == <<"srv", "docs">>
ImagePath == <<"srv", "docs", "i.png">>
SecretPath == <<"etc", "secret">>

EnvChoices ==
    {None,
     Some([kind |-> "empty"]),
     Some([kind |-> "path", path |-> <<"srv", "docs", "sub", "..">>]),
     Some([kind |-> "path", path |-> DocPath]),
     Some([kind |-> "json", paths |-> << <<"tmp">>, DocsDir >>])}

PathChoices ==
    {DocPath, <<"srv", "docs", ".", "old", "..", "a.pdf">>, <<"srv", "docs", "..", "a.pdf">>}

ImageChoices == {ImagePath, SecretPath, <<"srv", "docs", "missing.png">>}

PagesChoices == {None} \cup {Some(ps) : ps \in SeqUpTo(0..NumPages, MaxPagesArg)}

Tools ==
    {"get_metadata", "extract_content_as_text", "extract_content_as_json",
     "extract_content_as_markdown", "extract_text_with_layout", "list_annotations",
     "add_text", "replace_text", "highlight_text", "insert_image",
     "delete_text_by_bbox", "annotate_rect"}

AB == <<"a", "b">>

\* The arguments a tool takes besides path and pages
ArgChoices(tool) ==
    IF tool = "add_text" THEN {[text |-> AB, position |-> <<1, 30>>]}
    ELSE IF tool = "replace_text"
         THEN {[old_text |-> o, new_text |-> n] : o \in {AB, <<"b">>}, n \in {<<"y">>, <<>>}}
    ELSE IF tool = "highlight_text" THEN {[text |-> AB]}
    ELSE IF tool = "insert_image"
         THEN {[image_path |-> i, position |-> <<1, 30>>, size |-> z] :
                  i \in ImageChoices, z \in {None, Some(<<2, 3>>)}}
    ELSE IF tool = "delete_text_by_bbox" THEN {[bbox |-> <<1, 0, 2, 5>>]}
    ELSE IF tool = "annotate_rect"
         THEN {[bbox |-> <<1, 0, 2, 5>>, color |-> c] :
                  c \in {<<"#", "F", "F", "0", "0", "0", "0">>, <<"#", "F", "F", "0", "0">>, <<"#", "G", "G", "0", "0", "0", "0">>}}
    ELSE {[none |-> TRUE]}

\* A call of any tool on the stored document: the environment's ALLOWED_DIR, the
\* path, the pages and the tool's own arguments.
Init ==
    \E env \in EnvChoices, tool \in Tools, path \in PathChoices, pages \in PagesChoices :
        \E args \in ArgChoices(tool) :
            /\ ALLOWED_DIR = get_allowed_dir(env)
            /\ disk = [pdf |-> StoredDocument, images |-> {ImagePath, SecretPath}]
            /\ req = [tool |-> tool, path |-> path, pages |-> pages] @@ args
            /\ ret = Pending
            /\ opened = <<>>
            /\ locals = <<>>
            /\ in_memory = None

Next ==
    \/ get_metadata
    \/ extract_content_as_text
    \/ extract_content_as_json
    \/ extract_content_as_markdown
    \/ extract_text_with_layout
    \/ list_annotations
    \/ add_text
    \/ replace_text
    \/ highlight_text
    \/ insert_image
    \/ delete_text_by_bbox
    \/ annotate_rect

Spec == Init /\ [][Next]_vars

\* ------------------------------------------------------------ the claims

Done == ret.status = "returned"

RECURSIVE SumLen(_, _)
SumLen(ss, k) == IF k = 0 THEN 0 ELSE Len(ss[k]) + SumLen(ss, k - 1)

\* The places in the flattened sequence at which the parts of ss start
Starts(ss) == {1 + SumLen(ss, k - 1) : k \in 1..Len(ss)}

\* The lines of the stored page p (from 1), in document order
InputLines(p) == AllLines(disk.pdf.pages[p].blocks)

\* The text of t without the blanks at its ends
Trimmed(t) ==
    LET ink == {i \in 1..Len(t) : ~IsSpace(t[i])}
    IN  IF ink = {} THEN <<>>
        ELSE SubSeq(t, CHOOSE i \in ink : \A j \in ink : i <= j,
                       CHOOSE i \in ink : \A j \in ink : i >= j)

\* The tops of the lines some span of which has text, in document order
RetainedTops(p) ==
    LET kept == SelectSeq(InputLines(p),
                    LAMBDA line : \E k \in 1..Len(line.spans) :
                                      Trimmed(line.spans[k].text) # <<>>)
    IN  [i \in 1..Len(kept) |-> kept[i].bbox[2]]

\* C1: the retained lines of a page are cut into paragraphs exactly where the
\* top of a line differs by more than 15 from the top of the retained line
\* before it; the paragraphs are not empty and, laid end to end, are the
\* retained lines in document order.
C1_ParagraphsFollowGaps ==
    Done =>
        \A p \in 1..Len(locals) :
            LET sbl == locals[p].spans_by_line
                paras == locals[p].grouped_paragraphs
            IN  /\ [i \in 1..Len(sbl) |-> sbl[i].top] = RetainedTops(p)
                /\ Flatten(paras) = sbl
                /\ \A k \in 1..Len(paras) : paras[k] # <<>>
                /\ \A i \in 2..Len(sbl) :
                       (i \in Starts(paras)) <=> (Abs(sbl[i].top - sbl[i - 1].top) > 15)

\* C1 happens: a page with a line not retained, a line kept in its paragraph at
\* a gap of exactly 15, and a line that starts a paragraph at a gap of 16.
C1_Witness ==
    /\ Done
    /\ Len(locals) = 1
    /\ Len(InputLines(1)) > Len(locals[1].spans_by_line)
    /\ \E i \in 2..Len(locals[1].spans_by_line) :
           /\ locals[1].spans_by_line[i].top - locals[1].spans_by_line[i - 1].top = 15
           /\ i \notin Starts(locals[1].grouped_paragraphs)
    /\ \E i \in 2..Len(locals[1].spans_by_line) :
           /\ locals[1].spans_by_line[i].top - locals[1].spans_by_line[i - 1].top = 16
           /\ i \in Starts(locals[1].grouped_paragraphs)

\* The asterisks the claim puts around a span of this font
Stars(font) ==
    LET bold == Contains(font, BoldWord)
        slanted == Contains(font, ItalicWord) \/ Contains(font, ObliqueWord)
    IN  IF bold /\ slanted THEN 3 ELSE IF bold THEN 2 ELSE IF slanted THEN 1 ELSE 0

\* The spans of a line that contribute: those with text left after trimming
Contributing(line) == SelectSeq(line.spans, LAMBDA span : Trimmed(span.text) # <<>>)

\* What the claim says a line gives: nothing, or its text, top and doubled size
ExpectedEntry(line) ==
    LET cs == Contributing(line)
    IN  IF cs = <<>> THEN <<>>
        ELSE << [text |-> Join(SP, [k \in 1..Len(cs) |->
                              Star(Stars(cs[k].font)) \o Trimmed(cs[k].text)
                              \o Star(Stars(cs[k].font))]),
                 top |-> line.bbox[2],
                 size2 |-> Median2([k \in 1..Len(cs) |-> cs[k].size])] >>

\* C6: a span with text left after trimming contributes that text, in *** when
\* its font is Bold and Italic or Oblique, in ** when Bold only, in * when Italic
\* or Oblique only, bare otherwise; the other spans contribute nothing; a line's
\* text is its contributions in span order with one space between them; a line
\* without contribution is not retained; a retained line's size is the median of
\* the sizes of its contributing spans.
C6_LinesFromSpans ==
    Done =>
        \A p \in 1..Len(locals) :
            locals[p].spans_by_line =
                Flatten([l \in 1..Len(InputLines(p)) |-> ExpectedEntry(InputLines(p)[l])])

\* C6 happens: a line with a blank span whose size would move the median, a
\* Bold and Oblique span, a Bold span and an Italic span.
C6_Witness ==
    /\ Done
    /\ Len(locals) = 1
    /\ LET line == InputLines(1)[1]
           cs == Contributing(line)
       IN  /\ Len(cs) = 2
           /\ Len(line.spans) = 3
           /\ Median2([k \in 1..3 |-> line.spans[k].size]) # Median2([k \in 1..2 |-> cs[k].size])
           /\ {Stars(cs[k].font) : k \in 1..2} = {3, 1}
           /\ Len(locals[1].spans_by_line) = 2

\* The first line's doubled size and the page's quadrupled normal size, as the
\* claim has them
NormalFour(sbl) ==
    IF sbl = <<>> THEN 4 * 12
    ELSE LET sizes == Sorted([i \in 1..Len(sbl) |-> sbl[i].size2])
             n == Len(sizes)
         IN  IF n % 2 = 1 THEN 2 * sizes[(n + 1) \div 2]
             ELSE sizes[n \div 2] + sizes[n \div 2 + 1]

\* '# ' above 1.5 times the normal size, '## ' above 1.2, '### ' above 1.1
Prefix(s2, n4) ==
    IF 2 * s2 * 10 > 15 * n4 THEN <<"#", " ">>
    ELSE IF 2 * s2 * 10 > 12 * n4 THEN <<"#", "#", " ">>
    ELSE IF 2 * s2 * 10 > 11 * n4 THEN <<"#", "#", "#", " ">>
    ELSE <<>>

\* C2: each paragraph's fragment is the prefix that the size of its first line
\* and the page's normal size (the median of the sizes of the retained lines,
\* 12 without any) decide, then the texts of its lines with one space between
\* them, then a newline; a page whose retained lines have one size has no
\* heading.
C2_HeadingFromFirstLine ==
    Done =>
        \A p \in 1..Len(locals) :
            LET sbl == locals[p].spans_by_line
                paras == locals[p].grouped_paragraphs
                frags == locals[p].page_content
                n4 == NormalFour(sbl)
            IN  /\ locals[p].normal_size4 = n4
                /\ [i \in 1..Len(sbl) |-> sbl[i].size2] =
                       [i \in 1..Len(InputLines(p)) |-> 2 * InputLines(p)[i].spans[1].size]
                /\ Len(frags) = Len(paras)
                /\ \A k \in 1..Len(paras) :
                       frags[k] = Prefix(paras[k][1].size2, n4)
                                  \o Join(SP, [i \in 1..Len(paras[k]) |-> paras[k][i].text])
                                  \o NL
                /\ (\A i, j \in 1..Len(sbl) : sbl[i].size2 = sbl[j].size2) =>
                       \A k \in 1..Len(frags) : frags[k][1] # "#"

\* C2 happens: a paragraph of two lines whose first line is of normal size and
\* whose second is larger (no heading), after a paragraph that is a heading.
C2_Witness ==
    /\ Done
    /\ Len(locals) = 1
    /\ LET paras == locals[1].grouped_paragraphs
           frags == locals[1].page_content
       IN  /\ Len(paras) = 2
           /\ Len(paras[2]) = 2
           /\ paras[2][2].size2 > paras[2][1].size2
           /\ frags[1][1] = "#"
           /\ frags[2][1] # "#"

\* Whether the fragment starts with this prefix
StartsWith(frag, prefix) ==
    Len(frag) >= Len(prefix) /\ SubSeq(frag, 1, Len(prefix)) = prefix

\* The paragraphs of page p whose first line is `hundredths`/100 of the normal size
ParasAt(p, hundredths) ==
    {k \in 1..Len(locals[p].grouped_paragraphs) :
        200 * locals[p].grouped_paragraphs[k][1].size2 = hundredths * locals[p].normal_size4}

\* C3 as stated: at exactly 1.5 times the normal size the fragment starts with no
\* '#', at 1.51 times it starts with '# '.
C3_NoHashAtExactly15 ==
    Done =>
        \A p \in 1..Len(locals) :
            /\ \A k \in ParasAt(p, 150) : locals[p].page_content[k][1] # "#"
            /\ \A k \in ParasAt(p, 151) : StartsWith(locals[p].page_content[k], <<"#", " ">>)

\* C3 amended: at exactly 1.5 times the normal size the fragment starts with
\* '## ', the second level, and not with '# '; at 1.51 times it starts with '# '.
C3_SecondLevelAtExactly15 ==
    Done =>
        \A p \in 1..Len(locals) :
            /\ \A k \in ParasAt(p, 150) :
                   StartsWith(locals[p].page_content[k], <<"#", "#", " ">>)
            /\ \A k \in ParasAt(p, 151) : StartsWith(locals[p].page_content[k], <<"#", " ">>)

\* C3 happens: a page with a paragraph whose first line is at exactly 1.5 times
\* the normal size.
C3_Witness ==
    /\ Done
    /\ Len(locals) = 1
    /\ ParasAt(1, 150) # {}

\* Whether the table detection of this stored page raises: the finder, a table's
\* extract(), or a cell that is no string
TableFails(page) ==
    \/ page.find_tables.raises
    \/ \E t \in 1..Len(page.find_tables.tables) :
          LET table == page.find_tables.tables[t]
          IN  \/ table.raises
              \/ \E r \in 1..Len(table.rows) : \E c \in 1..Len(table.rows[r]) :
                    table.rows[r][c].type # "str"

\* '| c1 | ... | cC |' of the cells' texts
PipeRow(texts) ==
    <<"|">> \o Flatten([k \in 1..Len(texts) |-> <<" ">> \o texts[k] \o <<" ", "|">>])

RowTexts(row) == [k \in 1..Len(row) |-> Trimmed(row[k].value)]

\* The fragments of a table as C5 states them: a blank line, the first row, the
\* separator, the other rows
TableAsClaimed(table) ==
    IF table.rows = <<>> THEN <<NL>>
    ELSE <<NL, PipeRow(RowTexts(table.rows[1])),
           PipeRow([k \in 1..Len(table.rows[1]) |-> <<"-", "-", "-">>])>>
         \o [r \in 1..(Len(table.rows) - 1) |-> PipeRow(RowTexts(table.rows[r + 1]))]

\* The paragraph fragments of the stored pages of the table documents: one line
\* of normal size each
OneLineFragments(p) == <<Trimmed(InputLines(p)[1].spans[1].text) \o NL>>

\* C4: a failure of the table detection of a page is absorbed: the call returns
\* every requested page, and the failing page holds its paragraph fragments and
\* no table fragment at all.
C4_FailureLeavesNoTableOutput ==
    ret.status # "pending" =>
        /\ Done
        /\ Len(ret.value) = Len(disk.pdf.pages)
        /\ \A p \in 1..Len(locals) :
               TableFails(disk.pdf.pages[p]) => locals[p].page_content = OneLineFragments(p)

\* C5 as stated: on a page whose table detection does not fail, the fragments are
\* the paragraphs' and then, for each table, the blank line, the first row, the
\* separator and the other rows, and nothing else.
C5_TableFragmentsAsStated ==
    Done =>
        \A p \in 1..Len(locals) :
            ~TableFails(disk.pdf.pages[p]) =>
                locals[p].page_content =
                    OneLineFragments(p)
                    \o Flatten([t \in 1..Len(disk.pdf.pages[p].find_tables.tables) |->
                                   TableAsClaimed(disk.pdf.pages[p].find_tables.tables[t])])

\* C5 amended: ... and the other rows, and then one more blank line: R + 3
\* fragments for a table of R >= 1 rows (5 for 2 rows of 3 cells), the two blank
\* lines alone for a table without rows; all after the paragraphs' fragments.
C5_TableFragmentsWithTrailer ==
    Done =>
        \A p \in 1..Len(locals) :
            ~TableFails(disk.pdf.pages[p]) =>
                /\ locals[p].page_content =
                       OneLineFragments(p)
                       \o Flatten([t \in 1..Len(disk.pdf.pages[p].find_tables.tables) |->
                              TableAsClaimed(disk.pdf.pages[p].find_tables.tables[t]) \o <<NL>>])
                /\ ret.value[p].content = Join(NL, locals[p].page_content)

\* C5 happens: a page with a table of 2 rows of 3 cells, all strings, after which
\* the page holds 1 + 5 fragments.
C5_Witness ==
    /\ Done
    /\ ~TableFails(disk.pdf.pages[1])
    /\ Len(disk.pdf.pages[1].find_tables.tables) = 1
    /\ Len(disk.pdf.pages[1].find_tables.tables[1].rows) = 2
    /\ Len(disk.pdf.pages[1].find_tables.tables[1].rows[1]) = 3
    /\ Len(locals[1].page_content) = 6

\* The files a call is asked to access
AccessedFiles ==
    {req.path} \cup (IF req.tool = "insert_image" THEN {req.image_path} ELSE {})

\* Whether the file is an allowed directory or beneath one
Within(file) ==
    \E i \in 1..Len(Val(ALLOWED_DIR)) :
        LET dir == Val(ALLOWED_DIR)[i]
            at == Resolve(file)
        IN  Len(dir) <= Len(at) /\ SubSeq(at, 1, Len(dir)) = dir

\* C7: with an allowlist, a call that is asked to access a file outside every
\* allowed directory raises NotAuthorizedError and opens nothing; a call whose
\* files are all inside, and any call without allowlist, is not rejected.
C7_EveryFileGuarded ==
    ret.status # "pending" =>
        IF ~IsNone(ALLOWED_DIR) /\ \E f \in AccessedFiles : ~Within(f)
        THEN ret = Raised("NotAuthorizedError") /\ opened = <<>>
        ELSE ret # Raised("NotAuthorizedError")

\* The pages a call selects, as 1-based places in the stored document
SelectedPlaces ==
    IF IsNone(req.pages) THEN 1..NumPages
    ELSE {Val(req.pages)[i] + 1 : i \in 1..Len(Val(req.pages))}

\* C8: after replace_text, every occurrence of old_text that the search reports
\* on a selected page of the stored document is redacted and has new_text
\* inserted at its place.
C8_EveryOccurrenceReplaced ==
    (req.tool = "replace_text" /\ Done) =>
        \A p \in SelectedPlaces :
            LET hits == search_for(StoredDocument.pages[p], req.old_text)
                edits == disk.pdf.pages[p].edits
            IN  \A h \in 1..Len(hits) :
                    /\ \E e \in 1..Len(edits) :
                          edits[e].op = "redact" /\ edits[e].rect = hits[h]
                    /\ \E e \in 1..Len(edits) :
                          /\ edits[e].op = "insert_text"
                          /\ edits[e].point[1] = hits[h][1]
                          /\ edits[e].text = req.new_text

\* C9: insert_image without size returns, having put the image on every selected
\* page into (x, y, x + 100, y + 100) and saved.
C9_SizeDefaultsTo100 ==
    (/\ req.tool = "insert_image"
     /\ ret.status # "pending"
     /\ IsNone(req.size)
     /\ ret # Raised("NotAuthorizedError")
     /\ Resolve(req.image_path) \in disk.images
     /\ SelectedPlaces \subseteq 1..NumPages) =>
        /\ Done
        /\ \A p \in SelectedPlaces :
               \E e \in 1..Len(disk.pdf.pages[p].edits) :
                   /\ disk.pdf.pages[p].edits[e].op = "insert_image"
                   /\ disk.pdf.pages[p].edits[e].rect =
                          <<req.position[1], req.position[2],
                            req.position[1] + 100, req.position[2] + 100>>

\* C10: all pages are processed only when pages is None; a list, the empty one
\* included, gives one entry for each of its elements, in its order.
C10_ExactlyTheListedPages ==
    (/\ req.tool \in {"extract_content_as_text", "extract_content_as_json",
                       "extract_content_as_markdown"}
     /\ Done) =>
        [i \in 1..Len(ret.value) |-> ret.value[i].page] =
            (IF IsNone(req.pages) THEN [i \in 1..NumPages |-> i - 1] ELSE Val(req.pages))

\* The write tools
WriteTools ==
    {"add_text", "replace_text", "highlight_text", "insert_image",
     "delete_text_by_bbox", "annotate_rect"}

\* C11: a call of a write tool that raises leaves the file at the path as it
\* was stored; the file differs from the stored one only after a write tool has
\* returned, and then it is the whole document the tool held in memory, with
\* every listed page edited: never the edits of some of the selected pages.
C11_NoPartialWrite ==
    /\ (req.tool \in WriteTools /\ ret.status = "raised") => disk.pdf = StoredDocument
    /\ disk.pdf # StoredDocument =>
          /\ req.tool \in WriteTools
          /\ Done
          /\ disk.pdf = Val(in_memory)
          /\ \A p \in SelectedPlaces : disk.pdf.pages[p].edits # <<>>

\* C11 happens: a call raised IndexError at a page the document does not have
\* after it had edited an earlier page in memory, and the file is as stored.
C11_Witness ==
    /\ req.tool \in WriteTools
    /\ ret = Raised("IndexError")
    /\ ~IsNone(in_memory)
    /\ Val(in_memory) # StoredDocument
    /\ disk.pdf = StoredDocument

====
